---- MODULE Spec2Model ----
(***************************************************************************)
(* Experience-replay buffers of replay.py: one instance of one of the six  *)
(* classes, driven by a caller that issues store, sample and               *)
(* updatePriority calls one at a time.                                     *)
(*                                                                         *)
(* Numbers.  TD errors and E are fixed-point, in hundredths (E = 1 is      *)
(* 0.01, a TD error of 100 is 1.0).  A priority (|TDerror| + E) ** alpha   *)
(* is therefore an integer in units of 100^(-alpha); alpha is fixed per    *)
(* instance, so all priorities of an instance share one unit and sums,     *)
(* differences and ratios of priorities are exact.  Softmax priorities     *)
(* exp(|TDerror|) are in thousandths.  The arithmetic is exact: IEEE       *)
(* rounding of the float operations is not modelled.                       *)
(*                                                                         *)
(* A random draw u of np.random.random() is k / UDen with k in 0..UDen-1.  *)
(***************************************************************************)
EXTENDS Integers, Sequences, FiniteSets, TLC

VARIABLES
    policy,        \* which class the instance is
    buffer_size,   \* self.buffer_size
    alpha,         \* self.alpha (0 where the class has none)
    E,             \* self.E, hundredths (0 where the class has none)
    penalty,       \* self.penalty, percent (100 where the class has none)
    threshold,     \* self.threshold (0 where the class has none)
    scalar,        \* type of the TDerror values the caller passes (it matters
                   \* to ThresholdPrioritizedER.sample only)
    buffer,        \* self.buffer
    next_index,    \* self.next_index
    priorities,    \* self.priorities
    priority_sum,  \* self.priority_sum
    F_mat,         \* RarePrioritizedER.F_mat
    U_mat,         \* ThresholdPrioritizedER.U_mat
    ret,           \* outcome of the last call: what it returned or raised
    stored,        \* history: the transition of every completed store call
    sampled        \* history: how many ThresholdPrioritizedER.sample() calls
                   \* have returned

vars == <<policy, buffer_size, alpha, E, penalty, threshold, scalar, buffer,
          next_index, priorities, priority_sum, F_mat, U_mat, ret, stored,
          sampled>>

hyper == <<policy, buffer_size, alpha, E, penalty, threshold, scalar>>

----------------------------------------------------------------------------
(* Bounds of the model *)

MaxBuf == 2
MaxStores == 3
MaxAlpha == 1
MaxThreshold == 1
MaxSampled == 2
UDen == 4

(* Input domains *)

Policies == {"Uniform", "Prioritized", "Asymmetric", "Rare", "Threshold", "Softmax"}
PriorityBased == Policies \ {"Uniform"}
StateIdx == {0, 1}
ActionIdx == {0}
Pairs == StateIdx \X ActionIdx
Signals == {-100, 0, 100}
ScalarTypes == {"float", "float64"}
Draws == 0 .. (UDen - 1)
IdxArgs == (0 - MaxBuf - 1) .. MaxBuf

----------------------------------------------------------------------------
(* Python and numpy primitives *)

Abs(x) == IF x < 0 THEN 0 - x ELSE x

RECURSIVE Pow(_, _)
Pow(p, a) == IF a = 0 THEN 1 ELSE p * Pow(p, a - 1)

\* np.exp on the magnitudes the callers pass, in thousandths
Exp(x) ==
    CASE x = 0 -> 1000
      [] x = 50 -> 1649
      [] x = 100 -> 2718
      [] x = 200 -> 7389
      [] x = 300 -> 20086
      [] x = 400 -> 54598

\* a % b of Python: the result has the sign of the divisor b (b # 0)
PyMod(a, b) == IF b > 0 THEN a % b ELSE 0 - ((0 - a) % (0 - b))

\* seq[n] of a Python list of length len: negative n counts from the end
PyIndexOk(n, len) == (0 - len) <= n /\ n < len
PyPos(n, len) == IF n >= 0 THEN n + 1 ELSE len + n + 1

RECURSIVE SumSeq(_)
SumSeq(s) == IF s = <<>> THEN 0 ELSE s[1] + SumSeq(Tail(s))

\* np.cumsum(w)[j-1], before the division by the total
Prefix(w, j) == SumSeq(SubSeq(w, 1, j))

RECURSIVE ProdSeq(_)
ProdSeq(s) == IF s = <<>> THEN 1 ELSE s[1] * ProdSeq(Tail(s))

----------------------------------------------------------------------------
(* Priority transforms *)

\* faulty variant: the exponent alpha is not applied
PriorityOfNoExponent(TDerror) == Abs(TDerror) + E

\* faulty variant: the floor E is not added
PriorityOfNoFloor(TDerror) == Pow(Abs(TDerror), alpha)

\* PrioritizedER: p = abs(TDerror) + self.E ; prob = p ** self.alpha
PriorityOf(TDerror) == Pow(Abs(TDerror) + E, alpha)

\* faulty variant: the penalty is applied to the positive TD errors
PenalisedPositive(TDerror) == IF TDerror > 0 THEN (penalty * TDerror) \div 100 ELSE TDerror

\* AsymmetricPrioritizedER: a negative TDerror is multiplied by self.penalty
Penalised(TDerror) == IF TDerror < 0 THEN (penalty * TDerror) \div 100 ELSE TDerror

\* SoftmaxPrioritizedER: prob = np.exp(abs(TDerror))
SoftmaxOf(TDerror) == Exp(Abs(TDerror))

\* the priority the instance's class computes for a TDerror
Prob(TDerror) ==
    CASE policy = "Asymmetric" -> PriorityOf(Penalised(TDerror))
      [] policy = "Softmax" -> SoftmaxOf(TDerror)
      [] OTHER -> PriorityOf(TDerror)

----------------------------------------------------------------------------
(* Initial state: a freshly constructed instance *)

Fresh ==
    /\ buffer = <<>>
    /\ next_index = 0
    /\ priorities = <<>>
    /\ priority_sum = 0
    /\ F_mat = [p \in Pairs |-> 0]
    /\ U_mat = [p \in Pairs |-> 0]
    /\ ret = [op |-> "init", raised |-> "none"]
    /\ stored = <<>>
    /\ sampled = 0

Init ==
    /\ policy \in Policies
    /\ buffer_size \in 1 .. MaxBuf
    /\ alpha \in (IF policy \in {"Uniform", "Softmax"} THEN {0} ELSE 0 .. MaxAlpha)
    /\ E = (IF policy \in {"Uniform", "Softmax"} THEN 0 ELSE 1)
    /\ penalty = (IF policy = "Asymmetric" THEN 50 ELSE 100)
    /\ threshold \in (IF policy = "Threshold" THEN 0 .. MaxThreshold ELSE {0})
    /\ scalar \in (IF policy = "Threshold" THEN ScalarTypes ELSE {"float"})
    /\ Fresh

----------------------------------------------------------------------------
(* store *)

\* faulty variant: the overwrite test off by one
OverwritesOffByOne == next_index + 1 < Len(buffer)

\* the test "if self.next_index < len(self.buffer)"
Overwrites == next_index < Len(buffer)

\* faulty variant: the cursor advances without wrapping
NextIndexNoWrap == next_index + 1

\* self.next_index = (self.next_index + 1) % self.buffer_size
NextIndex == PyMod(next_index + 1, buffer_size)

\* faulty variant: the evicted priority stays in the running sum
OverwriteSumKeepsOld(prob, i) == priority_sum + prob

\* self.priority_sum += prob - self.priorities[self.next_index]
OverwriteSum(prob, i) == priority_sum + prob - priorities[i]

\* self.priority_sum += prob
AppendSum(prob) == priority_sum + prob

\* the cell of F_mat / U_mat a (state, action) index pair addresses; numpy
\* counts a negative index from the end of its axis
CellOk(state, action) ==
    /\ PyIndexOk(state, Cardinality(StateIdx))
    /\ PyIndexOk(action, Cardinality(ActionIdx))
Cell(state, action) ==
    <<PyPos(state, Cardinality(StateIdx)) - 1, PyPos(action, Cardinality(ActionIdx)) - 1>>

\* faulty variant: the pair is counted only when a slot is appended
IncrementedFOnAppend(state, action) ==
    IF Overwrites THEN F_mat ELSE [F_mat EXCEPT ![Cell(state, action)] = @ + 1]

\* self.F_mat[state,action] += 1
IncrementedF(state, action) == [F_mat EXCEPT ![Cell(state, action)] = @ + 1]

\* faulty variant: the priority is written to the slot counted from the end
OverwrittenPrioritiesFromEnd(prob, i) ==
    [priorities EXCEPT ![Len(priorities) + 1 - i] = prob]

\* self.priorities[self.next_index] = prob
OverwrittenPriorities(prob, i) == [priorities EXCEPT ![i] = prob]

\* store(state, action, reward, next_state, TDerror); the payload
\* (reward, next_state) is opaque to the buffer and carried as one field
storeAs(state, action, reward, TDerror) ==
    /\ LET experience == [state |-> state, action |-> action, reward |-> reward]
           prob == Prob(TDerror)
           len == Len(buffer)
           i == PyPos(next_index, len)
       IN  IF Overwrites /\ ~PyIndexOk(next_index, len)
           THEN \* self.buffer[self.next_index] = experience raises
                /\ ret' = [op |-> "store", raised |-> "IndexError"]
                /\ UNCHANGED <<buffer, priorities, priority_sum, next_index, F_mat, stored>>
           ELSE /\ buffer' = IF Overwrites
                                THEN [buffer EXCEPT ![i] = experience]
                                ELSE Append(buffer, experience)
                /\ priorities' = IF policy = "Uniform" THEN priorities
                                 ELSE IF Overwrites
                                      THEN OverwrittenPriorities(prob, i)
                                      ELSE Append(priorities, prob)
                /\ priority_sum' = IF policy = "Uniform" THEN priority_sum
                                   ELSE IF Overwrites
                                        THEN OverwriteSum(prob, i)
                                        ELSE AppendSum(prob)
                /\ IF buffer_size = 0
                   THEN \* the modulo raises after the slot was written
                        /\ ret' = [op |-> "store", raised |-> "ZeroDivisionError"]
                        /\ UNCHANGED <<next_index, F_mat, stored>>
                   ELSE /\ next_index' = NextIndex
                        /\ IF policy = "Rare" /\ ~CellOk(state, action)
                           THEN \* self.F_mat[state,action] += 1 raises after super().store
                                /\ ret' = [op |-> "store", raised |-> "IndexError"]
                                /\ UNCHANGED <<F_mat, stored>>
                           ELSE /\ F_mat' = IF policy = "Rare"
                                            THEN IncrementedF(state, action)
                                            ELSE F_mat
                                /\ ret' = [op |-> "store", raised |-> "none"]
                                /\ stored' = Append(stored, experience)
    /\ UNCHANGED <<hyper, U_mat, sampled>>

\* The caller passes the ordinal of the call as the payload, so every
\* transition is distinct.
store(state, action, TDerror) == storeAs(state, action, Len(stored) + 1, TDerror)

----------------------------------------------------------------------------
(* updatePriority *)

\* faulty variant: the running sum is replaced by the new priority
UpdatedSumReset(prob, i) == prob

\* self.priority_sum += prob - self.priorities[idx]
UpdatedSum(prob, i) == priority_sum + prob - priorities[i]

updatePriority(idx, TDerror) ==
    /\ IF policy = "Uniform"
       THEN \* pass
            /\ ret' = [op |-> "updatePriority", raised |-> "none"]
            /\ UNCHANGED <<priorities, priority_sum>>
       ELSE IF PyIndexOk(idx, Len(priorities))
            THEN LET i == PyPos(idx, Len(priorities))
                     prob == Prob(TDerror)
                 IN  /\ priority_sum' = UpdatedSum(prob, i)
                     /\ priorities' = [priorities EXCEPT ![i] = prob]
                     /\ ret' = [op |-> "updatePriority", raised |-> "none"]
            ELSE \* self.priorities[idx] raises before priority_sum is assigned
                 /\ ret' = [op |-> "updatePriority", raised |-> "IndexError"]
                 /\ UNCHANGED <<priorities, priority_sum>>
    /\ UNCHANGED <<hyper, buffer, next_index, F_mat, U_mat, stored, sampled>>

----------------------------------------------------------------------------
(* sample *)

\* faulty variant: the comparison with the draw is not strict
CountLessOrEqual(w, total, k) ==
    Cardinality({j \in 1 .. Len(w) : Prefix(w, j) * UDen <= k * total})

\* sum(cmf < u) for cmf = np.cumsum(w / total) and u = k / UDen: the number of
\* j with (w[1] + .. + w[j]) / total < k / UDen, for a total > 0
CountLess(w, total, k) ==
    Cardinality({j \in 1 .. Len(w) : Prefix(w, j) * UDen < k * total})

\* F_mat / U_mat at the pair of buffer slot j
FOf(j) == F_mat[Cell(buffer[j].state, buffer[j].action)]
UOf(j) == U_mat[Cell(buffer[j].state, buffer[j].action)]

\* faulty variant: the pmf is taken over the raw priorities
RareWeightsRaw == priorities

\* RarePrioritizedER: priorities[j] * (1 / F), brought to the common
\* denominator prod(F) so that the weights stay integers
RareWeights ==
    LET common == ProdSeq([j \in 1 .. Len(buffer) |-> FOf(j)])
    IN  [j \in 1 .. Len(buffer) |-> priorities[j] * (common \div FOf(j))]

\* RarePrioritizedER.sample with some F = 0: 1/0.0 is inf in numpy, the pmf
\* is 0 before the first such slot and nan from it on, and nan < u is False
RareZeroIdx(k) ==
    LET zeros == {j \in 1 .. Len(buffer) : FOf(j) = 0}
        first == CHOOSE j \in zeros : \A z \in zeros : j <= z
    IN  IF k = 0 THEN 0 ELSE first - 1

\* ThresholdPrioritizedER: is_counted = int(U_mat[state,action] < threshold)
\* faulty variant: a pair is still counted when it has reached the quota
IsCountedAtQuota(j) == IF UOf(j) <= threshold THEN 1 ELSE 0

\* int(self.U_mat[state,action] < self.threshold)
IsCounted(j) == IF UOf(j) < threshold THEN 1 ELSE 0
MaskedWeights == [j \in 1 .. Len(buffer) |-> priorities[j] * IsCounted(j)]

\* sum(self.priorities) starts from the int 0: it is a numpy scalar, which
\* can divide a list, only if some priority is one
SumIsNumpy == Len(priorities) > 0 /\ scalar = "float64"

SumU == SumSeq([n \in 1 .. Cardinality(Pairs) |->
            U_mat[<<(n - 1) \div Cardinality(ActionIdx), (n - 1) % Cardinality(ActionIdx)>>]])

\* what sample leaves in ret: the index it returned (and the draw k it was
\* computed from), or the exception it raised
Returned(idx, k) == [op |-> "sample", raised |-> "none", idx |-> idx, u |-> k]
ReturnedIdx(idx) == [op |-> "sample", raised |-> "none", idx |-> idx]
Raised(what) == [op |-> "sample", raised |-> what]

\* faulty variant: sampling moves the write cursor
sampleUniformAdvancing ==
    /\ policy = "Uniform"
    /\ IF Len(buffer) = 0
       THEN ret' = Raised("ValueError") /\ next_index' = next_index
       ELSE /\ \E idx \in 0 .. (Len(buffer) - 1) : ret' = ReturnedIdx(idx)
            /\ next_index' = NextIndex
    /\ UNCHANGED <<hyper, buffer, priorities, priority_sum, F_mat, U_mat, stored, sampled>>

\* ExperienceReplay.sample: np.random.randint(len(self.buffer))
sampleUniform ==
    /\ policy = "Uniform"
    /\ IF Len(buffer) = 0
       THEN ret' = Raised("ValueError")
       ELSE \E idx \in 0 .. (Len(buffer) - 1) : ret' = ReturnedIdx(idx)
    /\ UNCHANGED <<hyper, buffer, next_index, priorities, priority_sum, F_mat, U_mat, stored,
                   sampled>>

\* PrioritizedER.sample, inherited by Asymmetric and Softmax
samplePrioritized(k) ==
    /\ policy \in {"Prioritized", "Asymmetric", "Softmax"}
    /\ ret' = Returned(CountLess(priorities, priority_sum, k), k)
    /\ UNCHANGED <<hyper, buffer, next_index, priorities, priority_sum, F_mat, U_mat, stored,
                   sampled>>

sampleRare(k) ==
    /\ policy = "Rare"
    /\ ret' = IF \E j \in 1 .. Len(buffer) : ~CellOk(buffer[j].state, buffer[j].action)
              THEN \* self.F_mat[state,action] raises in the loop over the buffer
                   Raised("IndexError")
              ELSE IF \E j \in 1 .. Len(buffer) : FOf(j) = 0
                   THEN Returned(RareZeroIdx(k), k)
                   ELSE Returned(CountLess(RareWeights, SumSeq(RareWeights), k), k)
    /\ UNCHANGED <<hyper, buffer, next_index, priorities, priority_sum, F_mat, U_mat, stored,
                   sampled>>

\* faulty variant: the count goes to the pair of the first slot
IncrementedUFirstSlot(idx) ==
    [U_mat EXCEPT ![Cell(buffer[1].state, buffer[1].action)] = @ + 1]

\* state, action, _, _ = self.buffer[idx] ; self.U_mat[state,action] += 1
IncrementedU(idx) ==
    [U_mat EXCEPT ![Cell(buffer[idx + 1].state, buffer[idx + 1].action)] = @ + 1]

sampleThreshold(k) ==
    /\ policy = "Threshold"
    /\ LET fallback == SumSeq(MaskedWeights) = 0
           w == IF fallback THEN priorities ELSE MaskedWeights
           idx == CountLess(w, SumSeq(w), k)
       IN  IF fallback /\ ~SumIsNumpy
           THEN \* self.priorities / sum(self.priorities): a list divided by a
                \* Python number
                /\ ret' = Raised("TypeError")
                /\ UNCHANGED <<U_mat, sampled>>
           ELSE IF idx >= Len(buffer)
                THEN \* self.buffer[idx] raises
                     /\ ret' = Raised("IndexError")
                     /\ UNCHANGED <<U_mat, sampled>>
                ELSE /\ U_mat' = IncrementedU(idx)
                     /\ ret' = Returned(idx, k)
                     /\ sampled' = sampled + 1
    /\ UNCHANGED <<hyper, buffer, next_index, priorities, priority_sum, F_mat, stored>>

sample(k) ==
    \/ sampleUniform
    \/ samplePrioritized(k)
    \/ sampleRare(k)
    \/ sampleThreshold(k)

----------------------------------------------------------------------------
(* The caller: any call, with any arguments, at any time *)

Store ==
    /\ Len(stored) < MaxStores
    /\ \E state \in StateIdx, action \in ActionIdx :
        \E TDerror \in (IF policy = "Uniform" THEN {0} ELSE Signals) :
            store(state, action, TDerror)

UpdatePriority ==
    \E idx \in IdxArgs, TDerror \in Signals : updatePriority(idx, TDerror)

\* (U_mat grows with every ThresholdPrioritizedER.sample call: the caller
\* stops sampling such an instance after MaxSampled calls that returned)
Sample ==
    /\ policy = "Threshold" => sampled < MaxSampled
    /\ \E k \in Draws : sample(k)

Next == Store \/ UpdatePriority \/ Sample

Spec == Init /\ [][Next]_vars

----------------------------------------------------------------------------
(* The end-to-end scenario: PrioritizedER(buffer_size=3, alpha=1, E=0.01),  *)
(* four stores with TD errors 1, 2, 3, 4 in that order, samples in between *)

InitScenario ==
    /\ policy = "Prioritized"
    /\ buffer_size = 3
    /\ alpha = 1
    /\ E = 1
    /\ penalty = 100
    /\ threshold = 0
    /\ scalar = "float"
    /\ Fresh

ScenarioStore ==
    /\ Len(stored) < 4
    /\ \E state \in StateIdx, action \in ActionIdx :
           store(state, action, 100 * (Len(stored) + 1))

ScenarioSample == \E k \in Draws : samplePrioritized(k)

NextScenario == ScenarioStore \/ ScenarioSample

SpecScenario == InitScenario /\ [][NextScenario]_vars

----------------------------------------------------------------------------
(* Mirrored signals on AsymmetricPrioritizedER(buffer_size=2): slot 0 is     *)
(* written with +x, slot 1 with a negative signal, and slot 1 is refreshed  *)
(* with -x for the x of slot 0.  The payload of a transition is the          *)
(* magnitude of the signal it was stored with.                              *)

Magnitudes == {100, 200}
PenaltyPercents == {25, 50, 75}
Floors == {1, 100}

InitMirror ==
    /\ policy = "Asymmetric"
    /\ buffer_size = 2
    /\ alpha \in 0 .. MaxAlpha
    /\ E \in Floors
    /\ penalty \in PenaltyPercents
    /\ threshold = 0
    /\ scalar = "float"
    /\ Fresh

MirrorStore ==
    /\ Len(stored) < MaxStores + 1
    /\ \E state \in StateIdx, action \in ActionIdx, x \in Magnitudes :
           storeAs(state, action, x, IF next_index = 0 THEN x ELSE 0 - x)

MirrorUpdate ==
    /\ Len(buffer) = 2
    /\ updatePriority(1, 0 - buffer[1].reward)

NextMirror == MirrorStore \/ MirrorUpdate

SpecMirror == InitMirror /\ [][NextMirror]_vars

----------------------------------------------------------------------------
(* RarePrioritizedER under any short sequence of calls, and under the one   *)
(* long sequence that stores the pair (0,0) ten times and then the pair    *)
(* (1,0) once: occurrence counts 10 and 1                                   *)

InitRarity ==
    /\ policy = "Rare"
    /\ buffer_size \in 1 .. MaxBuf
    /\ alpha \in 0 .. MaxAlpha
    /\ E = 1
    /\ penalty = 100
    /\ threshold = 0
    /\ scalar = "float"
    /\ Fresh

OnlyFirstPair == \A n \in 1 .. Len(stored) : stored[n].state = 0 /\ stored[n].action = 0

RarityRepeat ==
    /\ Len(stored) < 10
    /\ OnlyFirstPair
    /\ store(0, 0, 0)

RarityLast ==
    /\ Len(stored) = 10
    /\ OnlyFirstPair
    /\ store(1, 0, 0)

RaritySample == \E k \in Draws : sampleRare(k)

NextRarity == Store \/ RarityRepeat \/ RarityLast \/ UpdatePriority \/ RaritySample

SpecRarity == InitRarity /\ [][NextRarity]_vars

----------------------------------------------------------------------------
(* The priority-based classes with a caller that passes the TD error of a  *)
(* transition as its payload too, and refreshes a slot's priority with the *)
(* TD error found in that slot: the payload tells which signal belongs to  *)
(* the transition a slot holds.                                             *)

InitTagged == Init /\ policy \in PriorityBased

TaggedStore ==
    /\ Len(stored) < MaxStores
    /\ \E state \in StateIdx, action \in ActionIdx, TDerror \in Signals :
           storeAs(state, action, TDerror, TDerror)

TaggedUpdate ==
    \E idx \in IdxArgs :
        IF PyIndexOk(idx, Len(buffer))
        THEN updatePriority(idx, buffer[PyPos(idx, Len(buffer))].reward)
        ELSE updatePriority(idx, 0)

NextTagged == TaggedStore \/ TaggedUpdate

SpecTagged == InitTagged /\ [][NextTagged]_vars

----------------------------------------------------------------------------
(* Instances constructed with any buffer_size, positive or not, and a      *)
(* caller of RarePrioritizedER.store that passes any state index, inside   *)
(* the occurrence table or not                                              *)

BufferSizes == (0 - MaxBuf) .. MaxBuf
StateArgs == (0 - Cardinality(StateIdx) - 1) .. Cardinality(StateIdx)

InitAnySize ==
    /\ policy \in Policies
    /\ buffer_size \in BufferSizes
    /\ alpha = (IF policy \in {"Uniform", "Softmax"} THEN 0 ELSE 1)
    /\ E = (IF policy \in {"Uniform", "Softmax"} THEN 0 ELSE 1)
    /\ penalty = (IF policy = "Asymmetric" THEN 50 ELSE 100)
    /\ threshold = (IF policy = "Threshold" THEN 1 ELSE 0)
    /\ scalar = "float"
    /\ Fresh

AnyStore ==
    /\ Len(stored) < MaxStores
    /\ \E state \in (IF policy = "Rare" THEN StateArgs ELSE StateIdx), action \in ActionIdx :
           store(state, action, IF policy = "Uniform" THEN 0 ELSE 100)

NextAnySize == AnyStore \/ Sample

SpecAnySize == InitAnySize /\ [][NextAnySize]_vars

----------------------------------------------------------------------------
(* ThresholdPrioritizedER sampled for ever.  np.random.random() returns a  *)
(* positive number with probability 1 - 2^-53 on every call, so a caller   *)
(* that keeps sampling keeps getting positive draws: weak fairness of the  *)
(* sample calls with a positive draw.  The calls followed are those that   *)
(* leave every count within one of the quota.                               *)

InitQuota == Init /\ policy = "Threshold" /\ alpha = 1

QuotaStore ==
    /\ Len(stored) < MaxStores
    /\ \E state \in StateIdx, action \in ActionIdx : store(state, action, 100)

QuotaUpdate == \E idx \in 0 .. (Len(buffer) - 1) : updatePriority(idx, 0)

QuotaSample(k) ==
    /\ sampleThreshold(k)
    /\ \A p \in Pairs : U_mat'[p] <= threshold + 1

QuotaDraw == \E k \in Draws : QuotaSample(k)

QuotaPositiveDraw == \E k \in Draws \ {0} : QuotaSample(k)

NextQuota == QuotaStore \/ QuotaUpdate \/ QuotaDraw

SpecQuota == InitQuota /\ [][NextQuota]_vars /\ WF_vars(QuotaPositiveDraw)

----------------------------------------------------------------------------
(* Claims *)

\* C1: for every priority-based policy, after any sequence of store and
\* updatePriority calls (overwriting stores included), priority_sum equals
\* the sum of all entries of priorities.
C1_PrioritySumConsistent ==
    policy \in PriorityBased => priority_sum = SumSeq(priorities)

\* a slot was overwritten and a priority was then refreshed, leaving
\* priorities that differ from one another
C1_Witness ==
    /\ policy \in PriorityBased
    /\ Len(stored) > buffer_size
    /\ ret = [op |-> "updatePriority", raised |-> "none"]
    /\ \E i, j \in 1 .. Len(priorities) : priorities[i] < priorities[j]

\* the last store call that wrote slot i (slots counted from 1)
LastWriter(i) ==
    CHOOSE k \in 1 .. Len(stored) :
        /\ (k - 1) % buffer_size = i - 1
        /\ \A m \in 1 .. Len(stored) : (m - 1) % buffer_size = i - 1 => m <= k

\* C2: once at least buffer_size transitions were stored, the buffer holds
\* exactly buffer_size transitions, slot i holds the transition of the last
\* store call k with k mod buffer_size = i (so the buffer is the last
\* buffer_size stored transitions), and the slot at next_index is the oldest.
C2_RingInvariant ==
    Len(stored) >= buffer_size =>
        /\ Len(buffer) = buffer_size
        /\ \A i \in 1 .. Len(buffer) : buffer[i] = stored[LastWriter(i)]
        /\ {buffer[i] : i \in 1 .. Len(buffer)}
               = {stored[k] : k \in (Len(stored) - buffer_size + 1) .. Len(stored)}
        /\ next_index \in 0 .. (Len(buffer) - 1)
        /\ \A i \in 1 .. Len(buffer) : buffer[next_index + 1].reward <= buffer[i].reward

\* a buffer of two slots after three stores: slot 0 was overwritten
C2_Witness ==
    /\ buffer_size = 2
    /\ Len(stored) = 3
    /\ next_index = 1
    /\ buffer[1].reward = 3

\* C3: in every reachable state of every policy, len(buffer) <= buffer_size.
C3_BufferBounded == Len(buffer) <= buffer_size

\* a full buffer that has been written to again, and then sampled
C3_Witness ==
    /\ Len(buffer) = buffer_size
    /\ Len(stored) > buffer_size
    /\ ret.op = "sample"

\* C4: PrioritizedER, buffer_size=3, alpha=1, E=0.01, stores with signals
\* 1, 2, 3, 4: slot 0 holds the 4th transition, slots 1 and 2 the 2nd and
\* 3rd, next_index is 1 and priority_sum is 2.01 + 3.01 + 4.01.
C4_Scenario ==
    Len(stored) = 4 =>
        /\ buffer = <<stored[4], stored[2], stored[3]>>
        /\ next_index = 1
        /\ priorities = <<401, 201, 301>>
        /\ priority_sum = 201 + 301 + 401

\* the state after the 4th store
C4_Witness ==
    /\ Len(stored) = 4
    /\ ret = [op |-> "store", raised |-> "none"]
    /\ buffer[1].reward = 4

\* C5: for every policy, sample() on an instance with zero stored
\* transitions fails with an error and never returns an index.
C5_EmptySampleFails ==
    (ret.op = "sample" /\ Len(buffer) = 0) => ret.raised # "none"

\* C6: updatePriority(idx, signal) on a priority-based policy with idx outside
\* [0, len(buffer)), negative idx included, raises an error and changes
\* neither priorities nor priority_sum.
C6_BadIndexRejected ==
    [][\A idx \in IdxArgs, TDerror \in Signals :
          (/\ policy \in PriorityBased
           /\ ~(0 <= idx /\ idx < Len(buffer))
           /\ updatePriority(idx, TDerror))
          => (/\ ret'.raised # "none"
              /\ priorities' = priorities
              /\ priority_sum' = priority_sum)]_vars

\* C7: for every policy, sample() on a non-empty buffer returns an integer
\* idx with 0 <= idx < len(buffer), whatever the draw.
C7_SampleInRange ==
    (ret.op = "sample" /\ Len(buffer) > 0)
        => (ret.raised = "none" /\ 0 <= ret.idx /\ ret.idx < Len(buffer))

\* the cumulative mass of slots 1..j, compared with the draw of the last
\* sample: cmf[j-1] > u, cmf[j-1] >= u and cmf[j-1] = u
MassExceeds(j) == Prefix(priorities, j) * UDen > ret.u * priority_sum
MassReaches(j) == Prefix(priorities, j) * UDen >= ret.u * priority_sum
MassEquals(j) == Prefix(priorities, j) * UDen = ret.u * priority_sum

UsesPrioritizedSample == policy \in {"Prioritized", "Asymmetric", "Softmax"}

\* C8 as claimed: PrioritizedER.sample() on a non-empty buffer returns the
\* first index whose cumulative mass exceeds the draw u.
C8_FirstExceeding ==
    (UsesPrioritizedSample /\ ret.op = "sample" /\ Len(buffer) > 0) =>
        /\ ret.idx < Len(buffer)
        /\ MassExceeds(ret.idx + 1)
        /\ \A j \in 1 .. ret.idx : ~MassExceeds(j)

\* C8 as amended: PrioritizedER.sample() on a non-empty buffer returns the
\* first index whose cumulative mass is greater than or equal to the draw u.
C8_FirstReaching ==
    (UsesPrioritizedSample /\ ret.op = "sample" /\ Len(buffer) > 0) =>
        /\ ret.idx < Len(buffer)
        /\ MassReaches(ret.idx + 1)
        /\ \A j \in 1 .. ret.idx : ~MassReaches(j)

\* a sample whose draw equals the cumulative mass of a slot that is not the
\* last: that slot is returned
C8_Witness ==
    /\ policy = "Prioritized"
    /\ ret.op = "sample"
    /\ Len(buffer) >= 2
    /\ ret.idx + 1 < Len(buffer)
    /\ MassEquals(ret.idx + 1)

\* C9: once a pair was sampled threshold times, a sample() made while some
\* slot holds a pair with U < threshold returns a slot that does not hold an
\* exhausted pair, for every draw and every position of the exhausted slots.
C9_QuotaEnforced ==
    [][\A k \in Draws :
          (/\ sampleThreshold(k)
           /\ \E j \in 1 .. Len(buffer) : UOf(j) >= threshold
           /\ \E j \in 1 .. Len(buffer) : UOf(j) < threshold)
          => (/\ ret'.raised = "none"
              /\ ret'.idx < Len(buffer)
              /\ UOf(ret'.idx + 1) < threshold)]_vars

\* C10: with a non-empty buffer in which every stored pair has
\* U >= threshold, sample() does not fail: it returns the index selected by
\* cumulative-mass inversion over priorities[i] / sum(priorities) and
\* increments U of the selected pair.
C10_FallbackSamples ==
    [][\A k \in Draws :
          (/\ sampleThreshold(k)
           /\ Len(buffer) > 0
           /\ \A j \in 1 .. Len(buffer) : UOf(j) >= threshold)
          => (/\ ret'.raised = "none"
              /\ ret'.idx = Cardinality({j \in 1 .. Len(priorities) :
                     Prefix(priorities, j) * UDen < k * SumSeq(priorities)})
              /\ ret'.idx < Len(buffer)
              /\ U_mat' = [U_mat EXCEPT
                     ![<<buffer[ret'.idx + 1].state, buffer[ret'.idx + 1].action>>] = @ + 1])]_vars

\* slot 1 holds the priority just written, by store or by updatePriority,
\* for -x, and slot 0 the priority that store wrote for +x
MirrorPair ==
    /\ Len(buffer) = 2
    /\ \/ ret = [op |-> "updatePriority", raised |-> "none"]
       \/ /\ ret = [op |-> "store", raised |-> "none"]
          /\ next_index = 0
          /\ buffer[2].reward = buffer[1].reward

\* C11 as claimed: for every x > 0, penalty in (0,1), E > 0 and every
\* alpha >= 0, the priority AsymmetricPrioritizedER writes for -x is
\* strictly lower than the one it writes for +x.
C11_StrictForEveryAlpha == MirrorPair => priorities[2] < priorities[1]

\* C11 as amended: the priority written for -x is strictly lower than the
\* one written for +x for every alpha > 0, and equal to it (both are 1) for
\* alpha = 0.
C11_StrictForPositiveAlpha ==
    MirrorPair =>
        /\ alpha > 0 => priorities[2] < priorities[1]
        /\ alpha = 0 => priorities[2] = priorities[1] /\ priorities[1] = 1

\* updatePriority has refreshed slot 1 with -x, replacing another priority
C11_Witness ==
    /\ MirrorPair
    /\ alpha > 0
    /\ ret.op = "updatePriority"
    /\ buffer[2].reward # buffer[1].reward

\* the number of completed store calls made with the pair p
StoresOf(p) ==
    Cardinality({k \in 1 .. Len(stored) : <<stored[k].state, stored[k].action>> = p})

\* the number of buffer slots that hold the pair p
SlotsOf(p) ==
    Cardinality({j \in 1 .. Len(buffer) : <<buffer[j].state, buffer[j].action>> = p})

\* C12: on RarePrioritizedER, after any sequence of store, sample and
\* updatePriority calls, F[s,a] is the number of store calls ever made with
\* (s,a), overwritten ones included, so every pair present in the buffer has
\* F >= 1 and sample() never divides by zero.
C12_OccurrenceTable ==
    policy = "Rare" =>
        /\ \A p \in Pairs : F_mat[p] = StoresOf(p)
        /\ \A j \in 1 .. Len(buffer) : FOf(j) >= 1

\* a pair whose transitions were partly overwritten keeps its count, and
\* sample has run on a buffer of unequal priorities
C12_Witness ==
    /\ policy = "Rare"
    /\ ret.op = "sample"
    /\ \E p \in Pairs : F_mat[p] > SlotsOf(p) /\ SlotsOf(p) >= 1
    /\ \E i, j \in 1 .. Len(priorities) : priorities[i] < priorities[j]

\* priorities[j] / F[state_j, action_j] over the common denominator prod(F),
\* its running sum over slots 1..j, and the total
RarityMass(j) ==
    priorities[j] * ProdSeq([m \in 1 .. Len(buffer) |-> IF m = j THEN 1 ELSE FOf(m)])
RarityCum(j) == SumSeq([i \in 1 .. j |-> RarityMass(i)])
RarityTotal == RarityCum(Len(buffer))

\* C13: RarePrioritizedER.sample() draws slot i with probability
\* (priorities[i] / F_i) / sum_j (priorities[j] / F_j): the draws u that
\* return slot i are those of the interval (c[i-1], c[i]] of the cumulative
\* sums c of these masses (with 0 for slot 0), whose length is that
\* probability.  With equal priorities and counts 1 and 10 the two slots
\* have mass 10/11 and 1/11.
C13_RarityDistribution ==
    (policy = "Rare" /\ ret.op = "sample" /\ Len(buffer) > 0) =>
        /\ ret.idx < Len(buffer)
        /\ ret.idx = 0 \/ RarityCum(ret.idx) * UDen < ret.u * RarityTotal
        /\ ret.u * RarityTotal <= RarityCum(ret.idx + 1) * UDen
        /\ (/\ Len(buffer) = 2
            /\ priorities[1] = priorities[2]
            /\ FOf(1) = 1
            /\ FOf(2) = 10) => (ret.idx = 0 <=> ret.u * 11 <= UDen * 10)

\* a sample over two slots of equal priority with counts 1 and 10
C13_Witness ==
    /\ policy = "Rare"
    /\ ret.op = "sample"
    /\ Len(buffer) = 2
    /\ priorities[1] = priorities[2]
    /\ FOf(1) = 1
    /\ FOf(2) = 10

\* C14: PrioritizedER with alpha = 0 and E > 0 is the uniform policy:
\* whatever signals store and updatePriority were given, every priority
\* is 1, priority_sum is len(buffer), and sample() returns slot i for the
\* draws u of (i/len, (i+1)/len] (with 0 for slot 0), an interval of length
\* 1/len(buffer) for every slot, as randint(len(buffer)) gives each slot.
C14_UniformReduction ==
    (policy = "Prioritized" /\ alpha = 0 /\ E > 0) =>
        /\ Len(priorities) = Len(buffer)
        /\ \A j \in 1 .. Len(priorities) : priorities[j] = 1
        /\ priority_sum = Len(buffer)
        /\ (ret.op = "sample" /\ Len(buffer) > 0) =>
               /\ ret.raised = "none"
               /\ ret.idx < Len(buffer)
               /\ ret.idx = 0 \/ ret.idx * UDen < ret.u * Len(buffer)
               /\ ret.u * Len(buffer) <= (ret.idx + 1) * UDen

\* alpha = 0: the second of two slots was sampled after a slot was
\* overwritten
C14_Witness ==
    /\ policy = "Prioritized"
    /\ alpha = 0
    /\ E > 0
    /\ Len(stored) > Len(buffer)
    /\ Len(buffer) = 2
    /\ ret.op = "sample"
    /\ ret.idx = 1

\* the classes whose priority is (abs(TDerror) + E) ** alpha or
\* exp(abs(TDerror)) and whose sample() is PrioritizedER.sample
FlooredPolicy ==
    \/ policy \in {"Prioritized", "Asymmetric"} /\ E > 0 /\ alpha >= 0
    \/ policy = "Softmax"

\* C16: for PrioritizedER, AsymmetricPrioritizedER and SoftmaxPrioritizedER
\* with E > 0 and alpha >= 0 every entry of priorities is strictly positive
\* in every reachable state, so every stored slot owns a share of the
\* cumulative mass of positive length.
C16_PrioritiesPositive ==
    FlooredPolicy =>
        /\ \A j \in 1 .. Len(priorities) : priorities[j] > 0
        /\ \A j \in 1 .. Len(priorities) :
               Prefix(priorities, j - 1) < Prefix(priorities, j)
        /\ Len(priorities) > 0 => priority_sum > 0

\* a slot whose priority is the floor alone (TDerror = 0, alpha = 1) next
\* to a slot of larger priority, and one of Softmax at exp(0)
C16_Witness ==
    \/ /\ policy \in {"Prioritized", "Asymmetric"}
       /\ alpha = 1
       /\ \E i, j \in 1 .. Len(priorities) : priorities[i] = E /\ priorities[j] > E
    \/ /\ policy = "Softmax"
       /\ \E i, j \in 1 .. Len(priorities) : priorities[i] = Exp(0) /\ priorities[j] > Exp(0)

\* the pair of the slot that the sample() step just taken returned
ReturnedPair == <<buffer[ret'.idx + 1].state, buffer[ret'.idx + 1].action>>

\* C15: ThresholdPrioritizedER: a sample() call that returns adds exactly 1
\* to U at the pair of the returned slot and changes no other entry; a
\* sample() call that raises, store and updatePriority leave U as it was;
\* so the entries of U always add up to the number of sample() calls that
\* returned.
C15_SampleCounter ==
    /\ [](policy = "Threshold" => SumU = sampled)
    /\ [][policy = "Threshold" =>
            IF ret'.op = "sample" /\ ret'.raised = "none"
            THEN /\ U_mat'[ReturnedPair] = U_mat[ReturnedPair] + 1
                 /\ \A p \in Pairs \ {ReturnedPair} : U_mat'[p] = U_mat[p]
            ELSE U_mat' = U_mat]_vars

\* two sample() calls returned slots of different pairs, and a store
\* completed afterwards
C15_Witness ==
    /\ policy = "Threshold"
    /\ sampled = 2
    /\ \A p \in Pairs : U_mat[p] = 1
    /\ ret = [op |-> "store", raised |-> "none"]

\* C17: a sample() call, whether it returns or raises, leaves buffer,
\* priorities, priority_sum, next_index and F as they were, and for every
\* class but ThresholdPrioritizedER also U; ExperienceReplay.updatePriority
\* changes no attribute at all.
C17_SampleFrame ==
    [][/\ ret'.op = "sample" =>
              /\ UNCHANGED <<hyper, buffer, priorities, priority_sum, next_index, F_mat>>
              /\ policy # "Threshold" => UNCHANGED U_mat
       /\ (policy = "Uniform" /\ ret'.op = "updatePriority") =>
              UNCHANGED <<hyper, buffer, priorities, priority_sum, next_index, F_mat, U_mat>>
      ]_vars

\* ThresholdPrioritizedER.sample() has counted a slot of a full buffer whose
\* cursor is in the middle
C17_Witness ==
    /\ policy = "Threshold"
    /\ ret.op = "sample"
    /\ ret.raised = "none"
    /\ SumU > 0
    /\ Len(buffer) = 2
    /\ next_index = 1

\* C18: for every priority-based class with buffer_size >= 1, in every
\* reachable state priorities is as long as buffer, next_index lies in
\* 0 .. buffer_size - 1 and equals the number of completed store calls
\* modulo buffer_size, and priorities[i] is the priority of the transition
\* that buffer[i] holds: a store that overwrites a slot replaces the
\* transition and its priority together.
C18_ParallelSequences ==
    (policy \in PriorityBased /\ buffer_size >= 1) =>
        /\ Len(priorities) = Len(buffer)
        /\ 0 <= next_index
        /\ next_index < buffer_size
        /\ next_index = Len(stored) % buffer_size
        /\ \A i \in 1 .. Len(buffer) : priorities[i] = Prob(buffer[i].reward)

\* a slot was overwritten, and the two slots hold transitions of different
\* priorities
C18_Witness ==
    /\ policy \in PriorityBased
    /\ Len(buffer) = 2
    /\ Len(stored) > Len(buffer)
    /\ buffer[1].reward # buffer[2].reward
    /\ priorities[1] > priorities[2]
    /\ ret = [op |-> "updatePriority", raised |-> "none"]

\* the step is a store call that raised and left the instance as it was
Rejected ==
    /\ ret'.op = "store"
    /\ ret'.raised # "none"
    /\ UNCHANGED <<buffer, priorities, priority_sum, next_index, F_mat>>

\* the step is a RarePrioritizedER.store call whose state index is outside
\* 0 .. num_state - 1
StoresOutsideTable ==
    /\ policy = "Rare"
    /\ \E state \in StateArgs \ StateIdx, action \in ActionIdx : store(state, action, 100)

\* C19: a store call on an instance constructed with buffer_size <= 0, and a
\* RarePrioritizedER.store call with an index outside the occurrence table,
\* raise an error and leave buffer, priorities, priority_sum, next_index
\* and F exactly as they were.
C19_StoreRejected ==
    [][(ret'.op = "store" /\ (buffer_size <= 0 \/ StoresOutsideTable)) => Rejected]_vars

\* the pair has reached the quota; every pair held by a slot has
Exhausted(p) == U_mat[p] >= threshold
HoldsPair(j, p) == <<buffer[j].state, buffer[j].action>> = p
AllExhausted == \A j \in 1 .. Len(buffer) : UOf(j) >= threshold

====
